---- MODULE Spec2Model ----
(***************************************************************************)
(* Model of the ai-newsy digest core: the article store and digest log     *)
(* (execution/database.py), topic rotation and the digest cycle            *)
(* (execution/send_daily_email.py), just-in-time and batch summarization   *)
(* (execution/summarize_articles.py), topic assignment                     *)
(* (execution/assign_topics.py), ingestion (execution/fetch_ai_news.py)    *)
(* and the merge of the two feed lists (execution/feed_config.py).         *)
(*                                                                         *)
(* Conventions.  A nullable column or Optional value is a sequence of      *)
(* length 0 (NULL / None) or 1 (<<v>>).  Timestamps are natural numbers    *)
(* read from the clock `now` (one unit = one day); the ISO-8601 strings    *)
(* the code compares are ordered exactly as the instants they denote.      *)
(* Source names are numbered 1..NumSources in their lexicographic order.   *)
(* An unordered store query returns its rows in an arbitrary order: every  *)
(* query takes the row order as an argument and callers quantify over it.  *)
(***************************************************************************)
EXTENDS Integers, Sequences, FiniteSets, TLC

VARIABLES
    articles,   \* table "articles": id -> row
    next_id,    \* next serial id of table "articles"
    digests,    \* table "digests": sequence of rows, in insertion order
    now,        \* the clock read by datetime.utcnow()
    cyc,        \* per invocation of send_daily_digest: its locals and position
    ret         \* result of the last direct call of a query function

vars == <<articles, next_id, digests, now, cyc, ret>>

----------------------------------------------------------------------------
(* Bounds of the model *)

MaxArticles == 2     \* rows ever inserted into "articles" (lifecycle specification)
MaxTime == 1         \* last clock value
MaxCap == 2          \* largest DIGEST_MAX_PER_SOURCE tried by a cycle
MaxCooldown == 1     \* largest DIGEST_TOPIC_COOLDOWN_DAYS tried (0: no cooldown)
MaxSubscribers == 2  \* most active subscribers a cycle finds
MaxDigests == 2      \* rows ever inserted into "digests"
MaxBatch == 2        \* most candidates one ingest run hands to the store
PoolSize == 4        \* rows of the stores the query functions are applied to
PoolCap == 3         \* largest max_per_source passed to a direct call
PoolStamps == 3      \* distinct fetched_at values in those stores
TopicPool == 3       \* rows of the stores choose_topic_for_today is applied to
LogLen == 1          \* rows of the digest logs choose_topic_for_today is applied to

NumSources == 1      \* distinct source names of the feeds (lifecycle specification)
PoolSources == 3     \* distinct source names in the stores of direct calls
MaxUrl == 2          \* distinct article URLs the feeds offer
MaxAddUrl == 3       \* distinct URLs handed to direct calls of add_article
MaxAdds == 3         \* rows inserted by direct calls of add_article
Procs == {1, 2}      \* invocations of send_daily_digest that may exist
SeqProcs == {1}      \* invocations used when cycles run one at a time

----------------------------------------------------------------------------
(* Values *)

NULL == <<>>
Some(v) == <<v>>
IsNull(o) == o = NULL
Val(o) == o[1]

TOPICS == <<"Models", "Agents & Tools", "MCP & SKILLs", "Safety", "Industry">>
TopicSet == {TOPICS[i] : i \in 1..Len(TOPICS)}
TopicIndex(t) == CHOOSE i \in 1..Len(TOPICS) : TOPICS[i] = t

Sources == 1..NumSources
\* URLs are strings, compared literally; the first ones differ in case,
\* in scheme and in a trailing slash only.
UrlPool == <<"https://x.ai/a", "https://x.ai/A", "http://x.ai/a", "https://x.ai/a/">>
Urls == {UrlPool[i] : i \in 1..MaxUrl}
AddUrls == {UrlPool[i] : i \in 1..MaxAddUrl}
\* the url of the i-th row of a store given as a whole
RowUrl(i) == "https://x.ai/" \o ToString(i)
PoolSourceSet == 1..PoolSources
\* A null source (None).  The sources are the integers from 1 on, in the
\* lexicographic order of their names; None is none of them.
None == 0

Range(s) == {s[i] : i \in 1..Len(s)}

UpperCase == "ABCDEFGHIJKLMNOPQRSTUVWXYZ"
LowerCase == "abcdefghijklmnopqrstuvwxyz"

\* the character at position i of s, as a string of length 1
CharAt(s, i) == SubSeq(s, i, i)

\* str.lower(), one character: the table of the upper-case letters
ToLower ==
    [c \in {CharAt(UpperCase, i) : i \in 1..Len(UpperCase)} |->
        CharAt(LowerCase, CHOOSE i \in 1..Len(UpperCase) : CharAt(UpperCase, i) = c)]

LowerChar(c) == IF c \in DOMAIN ToLower THEN ToLower[c] ELSE c

\* str.lower()
RECURSIVE Lower(_)
Lower(s) == IF Len(s) = 0 THEN "" ELSE LowerChar(CharAt(s, 1)) \o Lower(SubSeq(s, 2, Len(s)))

\* str.strip(): leading and trailing blanks removed
Strip(s) ==
    LET ink == {i \in 1..Len(s) : CharAt(s, i) # " "}
    IN IF ink = {} THEN ""
       ELSE SubSeq(s, CHOOSE i \in ink : \A j \in ink : i <= j,
                      CHOOSE i \in ink : \A j \in ink : j <= i)

\* s.endswith(suffix)
EndsWith(s, suffix) ==
    Len(suffix) <= Len(s) /\ SubSeq(s, Len(s) - Len(suffix) + 1, Len(s)) = suffix

\* a in b (substring)
Contains(a, b) ==
    \E i \in 1..(Len(b) - Len(a) + 1) : SubSeq(b, i, i + Len(a) - 1) = a

\* All orders in which the store may return the rows with ids in S.
RECURSIVE RowOrders(_)
RowOrders(S) ==
    IF S = {} THEN {<<>>}
    ELSE UNION {{<<a>> \o rest : rest \in RowOrders(S \ {a})} : a \in S}

\* The rows of seq that are in the set S, in the order of seq (a WHERE
\* clause of a query, or a list comprehension with a condition).
Filter(seq, S) == SelectSeq(seq, LAMBDA x : x \in S)

\* Python's sorted(seq, key=..., reverse=True): stable, largest key first.
\* key is the function from the elements to their keys.
SortedDesc(seq, key) ==
    LET n == Len(seq)
        pos(i) == Cardinality({j \in 1..n : key[seq[j]] > key[seq[i]]})
                  + Cardinality({j \in 1..(i - 1) : key[seq[j]] = key[seq[i]]}) + 1
    IN [k \in 1..n |-> seq[CHOOSE i \in 1..n : pos(i) = k]]

\* seq[:n] for n >= 0.
Take(seq, n) == SubSeq(seq, 1, IF n < Len(seq) THEN n ELSE Len(seq))

----------------------------------------------------------------------------
(* database.py: queries.  `arts` is the articles table, `order` the order   *)
(* in which the store returns all its rows.                                 *)

\* get_unsent_articles without the sent_at filter.
get_unsent_articles_AnySent(arts, order, topic, require_summary) ==
    Filter(order, {a \in DOMAIN arts :
                     /\ (require_summary => ~IsNull(arts[a].summary))
                     /\ (~IsNull(topic) => arts[a].topic = topic)})

get_unsent_articles(arts, order, topic, require_summary) ==
    Filter(order, {a \in DOMAIN arts :
                     /\ IsNull(arts[a].sent_at)
                     /\ (require_summary => ~IsNull(arts[a].summary))
                     /\ (~IsNull(topic) => arts[a].topic = topic)})

get_unsent_articles_with_topic_set(arts, order) ==
    Filter(order, {a \in DOMAIN arts : IsNull(arts[a].sent_at) /\ ~IsNull(arts[a].topic)})

\* get_topics_used_in_last_k_days with the comparison reversed (lte for gte).
get_topics_used_in_last_k_days_Lte(log, t, k) ==
    {log[i].topic : i \in {j \in 1..Len(log) : log[j].sent_at <= t - k}}

get_topics_used_in_last_k_days(log, t, k) ==
    {log[i].topic : i \in {j \in 1..Len(log) : log[j].sent_at >= t - k}}

\* by_source: source keys in order of first appearance (dict insertion order).
SourceKeys(arts, pool) ==
    LET first(i) == \A j \in 1..(i - 1) : arts[pool[j]].source # arts[pool[i]].source
        idxs == {i \in 1..Len(pool) : first(i)}
        nth(k) == CHOOSE i \in idxs : Cardinality({j \in idxs : j < i}) = k - 1
    IN [k \in 1..Cardinality(idxs) |-> arts[pool[nth(k)]].source]

\* Capped with the sort left out: the first max_per_source rows in store order.
Capped_Unsorted(arts, pool, source, max_per_source) ==
    LET mine == Filter(pool, {a \in DOMAIN arts : arts[a].source = source})
    IN SubSeq(mine, 1, IF max_per_source < Len(mine) THEN max_per_source ELSE Len(mine))

\* capped[source]: the source's rows, newest first, cut to max_per_source.
Capped(arts, pool, source, max_per_source) ==
    LET mine == Filter(pool, {a \in DOMAIN arts : arts[a].source = source})
        key == [a \in DOMAIN arts |-> arts[a].fetched_at]
    IN Take(SortedDesc(mine, key), max_per_source)

RECURSIVE Flatten(_)
Flatten(seqs) == IF seqs = <<>> THEN <<>> ELSE Head(seqs) \o Flatten(Tail(seqs))

\* RoundRobin without rounds: each source's rows in one block.
RoundRobin_Blocks(capped, sources, r) ==
    Flatten([i \in 1..Len(sources) |-> capped[sources[i]]])

\* The while-loop of the round-robin branch: one pass over the sorted keys
\* per round, round r taking capped[s][r] of every s that has one.
RECURSIVE RoundRobin(_, _, _)
RoundRobin(capped, sources, r) ==
    LET has == Filter(sources, {s \in DOMAIN capped : r <= Len(capped[s])})
        round == [i \in 1..Len(has) |-> capped[has[i]][r]]
    IN IF round = <<>> THEN <<>> ELSE round \o RoundRobin(capped, sources, r + 1)

\* sorted(capped.keys()) raises TypeError when it has to compare None, the
\* key of the rows whose source is null, with the name of a source.
SortedKeysRaises(keys) ==
    \E i, j \in 1..Len(keys) : keys[i] = None /\ keys[j] # None

\* SortedKeys with the sort left out: the keys in dict insertion order.
SortedKeys_Unsorted(keys) == keys

\* sorted(capped.keys()): the source keys in ascending (lexicographic) order.
SortedKeys(keys) ==
    LET pos(i) == Cardinality({j \in 1..Len(keys) : keys[j] < keys[i]}) + 1
    IN [k \in 1..Len(keys) |-> keys[CHOOSE i \in 1..Len(keys) : pos(i) = k]]

\* RequireSummary with the summary demanded in every mode.
RequireSummary_Always(topic) == TRUE

\* require_summary = topic is None
RequireSummary(topic) == IsNull(topic)

\* get_unsent_articles_for_digest with the final result.sort left out of the
\* branch without interleaving.
get_unsent_articles_for_digest_NoResort(arts, order, max_per_source, interleave, topic) ==
    LET all_articles == get_unsent_articles(arts, order, topic, RequireSummary(topic))
        keys == SourceKeys(arts, all_articles)
        capped == [s \in Range(keys) |-> Capped(arts, all_articles, s, max_per_source)]
    IN IF ~interleave
       THEN Flatten([i \in 1..Len(keys) |-> capped[keys[i]]])
       ELSE RoundRobin(capped, SortedKeys(keys), 1)

get_unsent_articles_for_digest(arts, order, max_per_source, interleave, topic) ==
    LET all_articles == get_unsent_articles(arts, order, topic, RequireSummary(topic))
        keys == SourceKeys(arts, all_articles)
        capped == [s \in Range(keys) |-> Capped(arts, all_articles, s, max_per_source)]
        key == [a \in DOMAIN arts |-> arts[a].fetched_at]
    IN IF ~interleave
       THEN SortedDesc(Flatten([i \in 1..Len(keys) |-> capped[keys[i]]]), key)
       ELSE RoundRobin(capped, SortedKeys(keys), 1)

----------------------------------------------------------------------------
(* send_daily_email.py: topic rotation *)

\* Counter(...): the topics of the rows, in order of first appearance.
CounterKeys(arts, rows) ==
    LET first(i) == \A j \in 1..(i - 1) : arts[rows[j]].topic # arts[rows[i]].topic
        idxs == {i \in 1..Len(rows) : first(i)}
        nth(k) == CHOOSE i \in idxs : Cardinality({j \in idxs : j < i}) = k - 1
    IN [k \in 1..Cardinality(idxs) |-> Val(arts[rows[nth(k)]].topic)]

CounterCount(arts, rows, t) ==
    Cardinality({i \in 1..Len(rows) : arts[rows[i]].topic = Some(t)})

\* max(eligible.items(), key=lambda x: x[1])[0]: the first key, in the
\* dict's iteration order, whose count is the largest.
MaxByCount(keys, count) ==
    LET best(i) == \A j \in 1..Len(keys) : count[keys[j]] <= count[keys[i]]
    IN keys[CHOOSE i \in 1..Len(keys) : best(i) /\ \A j \in 1..(i - 1) : ~best(j)]

\* choose_topic_for_today without the fallback to all counted topics.
choose_topic_for_today_NoFallback(arts, order, log, t, cooldown_days) ==
    LET articles_with_topic == get_unsent_articles_with_topic_set(arts, order)
        excluded == get_topics_used_in_last_k_days(log, t, cooldown_days)
        counts == CounterKeys(arts, articles_with_topic)
        count == [x \in Range(counts) |-> CounterCount(arts, articles_with_topic, x)]
        eligible == Filter(counts, TopicSet \ excluded)
    IN IF articles_with_topic = <<>> \/ eligible = <<>> THEN NULL
       ELSE Some(MaxByCount(eligible, count))

choose_topic_for_today(arts, order, log, t, cooldown_days) ==
    LET articles_with_topic == get_unsent_articles_with_topic_set(arts, order)
        excluded == get_topics_used_in_last_k_days(log, t, cooldown_days)
        counts == CounterKeys(arts, articles_with_topic)
        count == [x \in Range(counts) |-> CounterCount(arts, articles_with_topic, x)]
        eligible == IF Filter(counts, TopicSet \ excluded) = <<>>
                    THEN counts
                    ELSE Filter(counts, TopicSet \ excluded)
    IN IF articles_with_topic = <<>> THEN NULL
       ELSE Some(MaxByCount(eligible, count))

----------------------------------------------------------------------------
(* Direct calls of the query functions on bounded stores *)

\* A row of table "articles".  opinion is written together with summary
\* (NULL before), image_url on its own.
Row(u, s, tp, sm, f, st) ==
    [url |-> u, source |-> s, topic |-> tp, summary |-> sm,
     opinion |-> IF IsNull(sm) THEN NULL ELSE Some("o"), image_url |-> NULL,
     fetched_at |-> f, sent_at |-> st]

\* The locals of an invocation of send_daily_digest, with what the store
\* held when it began (store0, digests0) and, once it was terminated, the
\* position it had reached (at).
IdleCycle ==
    [pc |-> "idle", at |-> "idle", dry_run |-> FALSE, test_email |-> FALSE,
     max_per_source |-> 0, chosen_topic |-> NULL, pool |-> {}, articles |-> <<>>,
     need_summary |-> {}, sent |-> 0, failed |-> 0, todo |-> <<>>, sent_time |-> 0,
     store0 |-> <<>>, digests0 |-> 0]

NoCall == [fn |-> "none"]

\* Stores of n unsent, summarized rows of one topic, each with its own url,
\* that differ in source and fetched_at: the pools select() is handed.  Ids are serial and
\* fetched_at is the clock at insertion, so fetched_at never decreases with id.
PoolStores ==
    LET rows == {Row("", s, Some(TOPICS[1]), Some("s"), f, NULL) :
                    s \in PoolSourceSet, f \in 1..PoolStamps}
        all == UNION {[1..n -> rows] : n \in 0..PoolSize}
        aged == {st \in all : \A i, j \in DOMAIN st : i < j => st[i].fetched_at <= st[j].fetched_at}
    IN {[i \in DOMAIN st |-> [st[i] EXCEPT !.url = RowUrl(i)]] : st \in aged}

InitSelect ==
    /\ articles \in PoolStores
    /\ next_id = Cardinality(DOMAIN articles) + 1
    /\ digests = <<>>
    /\ now = PoolStamps
    /\ cyc = [p \in Procs |-> IdleCycle]
    /\ ret = NoCall

CallSelect ==
    /\ ret = NoCall
    /\ \E order \in RowOrders(DOMAIN articles), cap \in 1..PoolCap, interleave \in BOOLEAN :
        /\ ret' = [fn |-> "select", max_per_source |-> cap, interleave |-> interleave,
                   pool |-> get_unsent_articles(articles, order, NULL, TRUE),
                   value |-> get_unsent_articles_for_digest(articles, order, cap, interleave, NULL)]
        /\ UNCHANGED <<articles, next_id, digests, now, cyc>>

SpecSelect == InitSelect /\ [][CallSelect]_vars

\* Stores whose rows may have no source
SourcePool == 3       \* most rows of such a store
SourceStamps == 2     \* fetched_at values of its rows
NamedSources == 2     \* sources its rows may name

SourceStores ==
    LET rows == {Row("", s, Some(TOPICS[1]), Some("s"), f, NULL) :
                    s \in {None} \cup 1..NamedSources, f \in 1..SourceStamps}
        all == UNION {[1..n -> rows] : n \in 0..SourcePool}
        aged == {st \in all : \A i, j \in DOMAIN st : i < j => st[i].fetched_at <= st[j].fetched_at}
    IN {[i \in DOMAIN st |-> [st[i] EXCEPT !.url = RowUrl(i)]] : st \in aged}

InitSource ==
    /\ articles \in SourceStores
    /\ next_id = Cardinality(DOMAIN articles) + 1
    /\ digests = <<>>
    /\ now = SourceStamps
    /\ cyc = [p \in Procs |-> IdleCycle]
    /\ ret = NoCall

\* A call of get_unsent_articles_for_digest on such a store: the keys of
\* by_source, whether the call raised, and its value when it did not.
CallSelectSource ==
    /\ ret = NoCall
    /\ \E order \in RowOrders(DOMAIN articles), cap \in 1..MaxCap, interleave \in BOOLEAN :
        LET pool == get_unsent_articles(articles, order, NULL, TRUE)
            keys == SourceKeys(articles, pool)
            raised == interleave /\ SortedKeysRaises(keys)
        IN /\ ret' = [fn |-> "select_source", max_per_source |-> cap, interleave |-> interleave,
                      pool |-> pool, keys |-> keys, raised |-> raised,
                      value |-> IF raised THEN <<>>
                                ELSE get_unsent_articles_for_digest(articles, order, cap,
                                                                    interleave, NULL)]
           /\ UNCHANGED <<articles, next_id, digests, now, cyc>>

SpecSource == InitSource /\ [][CallSelectSource]_vars

\* Stores of n rows that differ in topic (none or one of TOPICS) and in
\* being sent or not.  The order of the rows returned is arbitrary in every
\* query, so one store stands for all its renumberings: rows are listed by
\* topic, unsent before sent.
TopicStores ==
    LET rows == {Row("", 1, tp, NULL, 0, st) :
                    tp \in {NULL} \cup {Some(t) : t \in TopicSet}, st \in {NULL, Some(0)}}
        key(r) == 2 * (IF IsNull(r.topic) THEN 0 ELSE TopicIndex(Val(r.topic)))
                  + (IF IsNull(r.sent_at) THEN 0 ELSE 1)
        all == UNION {[1..n -> rows] : n \in 0..TopicPool}
        listed == {st \in all : \A i, j \in DOMAIN st : i < j => key(st[i]) <= key(st[j])}
    IN {[i \in DOMAIN st |-> [st[i] EXCEPT !.url = RowUrl(i)]] : st \in listed}

\* Digest logs of up to LogLen rows; sent_at never decreases along the log.
TopicLogs ==
    LET rows == {[topic |-> t, sent_at |-> ts] : t \in TopicSet, ts \in 0..MaxTime}
        all == UNION {[1..n -> rows] : n \in 0..LogLen}
    IN {lg \in all : \A i, j \in DOMAIN lg : i < j => lg[i].sent_at <= lg[j].sent_at}

InitTopic ==
    /\ articles \in TopicStores
    /\ next_id = Cardinality(DOMAIN articles) + 1
    /\ digests \in TopicLogs
    /\ now = MaxTime
    /\ cyc = [p \in Procs |-> IdleCycle]
    /\ ret = NoCall

CallChooseTopic ==
    /\ ret = NoCall
    /\ \E order \in RowOrders(DOMAIN articles), k \in 0..MaxCooldown :
        /\ ret' = [fn |-> "choose_topic", cooldown_days |-> k,
                   value |-> choose_topic_for_today(articles, order, digests, now, k)]
        /\ UNCHANGED <<articles, next_id, digests, now, cyc>>

SpecTopic == InitTopic /\ [][CallChooseTopic]_vars

----------------------------------------------------------------------------
(* The store's writes (database.py, summarize_articles.py) *)

\* UPDATE articles SET column = v WHERE id = a: no row, no change.
mark_article_sent(arts, a, sent_time) ==
    IF a \in DOMAIN arts THEN [arts EXCEPT ![a].sent_at = Some(sent_time)] ELSE arts
update_article_analysis(arts, a, summary, opinion) ==
    IF a \in DOMAIN arts
    THEN [arts EXCEPT ![a].summary = Some(summary), ![a].opinion = Some(opinion)]
    ELSE arts
update_article_image(arts, a, image_url) ==
    IF a \in DOMAIN arts THEN [arts EXCEPT ![a].image_url = Some(image_url)] ELSE arts
update_article_topic(arts, a, topic) ==
    IF a \in DOMAIN arts THEN [arts EXCEPT ![a].topic = Some(topic)] ELSE arts

\* UrlExists with the urls compared without regard to case.
UrlExists_IgnoreCase(arts, url) == \E a \in DOMAIN arts : Lower(arts[a].url) = Lower(url)

\* add_article: insert unless a row with this url exists.  The value is the
\* table after the call; the serial id is consumed only by an insert.
UrlExists(arts, url) == \E a \in DOMAIN arts : arts[a].url = url

add_article(arts, nid, url, source, t) ==
    IF UrlExists(arts, url) THEN arts
    ELSE [a \in DOMAIN arts \cup {nid} |->
            IF a = nid THEN Row(url, source, NULL, NULL, t, NULL) ELSE arts[a]]

\* fetch_all_feeds' loop over the candidates of a run.
RECURSIVE AddAll(_, _, _, _)
AddAll(arts, nid, cands, t) ==
    IF cands = <<>> THEN [arts |-> arts, nid |-> nid]
    ELSE LET c == Head(cands)
             inserted == ~UrlExists(arts, c.url)
         IN AddAll(add_article(arts, nid, c.url, c.source, t),
                   IF inserted THEN nid + 1 ELSE nid, Tail(cands), t)

\* What summarize_article and extract_og_image yield for an article whose
\* analysis succeeds: a summary and an opinion (texts, one value each) and
\* possibly an image.
Analyses == {[summary |-> "s", opinion |-> "o", image |-> img] : img \in {NULL, Some("img")}}

\* The body of the summarization loop for each row of S whose analysis
\* out[a] has a summary: update_article_analysis, then update_article_image
\* when an image was found.
RECURSIVE SetSummaries(_, _, _)
SetSummaries(arts, S, out) ==
    IF S = {} THEN arts
    ELSE LET a == CHOOSE x \in S : TRUE
             analysed == update_article_analysis(arts, a, out[a].summary, out[a].opinion)
             imaged == IF IsNull(out[a].image) THEN analysed
                       ELSE update_article_image(analysed, a, Val(out[a].image))
         IN SetSummaries(imaged, S \ {a}, out)

\* update_article_topic(id, label[id]) for each row of S
RECURSIVE SetTopics(_, _, _)
SetTopics(arts, S, label) ==
    IF S = {} THEN arts
    ELSE LET a == CHOOSE x \in S : TRUE
         IN SetTopics(update_article_topic(arts, a, label[a]), S \ {a}, label)

----------------------------------------------------------------------------
(* assign_topics.py *)

\* A classifier response: generate_content raised, or it returned a text.
Response(raises, text) == [raises |-> raises, text |-> text]

\* the responses of the runs of assign_all in the lifecycle
Responses ==
    {Response(TRUE, ""), Response(FALSE, ""), Response(FALSE, "Models"),
     Response(FALSE, "Safety, Models")}

\* the labels of TOPICS that match the text, by position
Matching(text) ==
    {i \in 1..Len(TOPICS) : Contains(Lower(TOPICS[i]), Lower(text)) \/ text = TOPICS[i]}

\* assign_topic_for_article with the text returned when no label matches.
assign_topic_for_article_NoDefault(response) ==
    IF response.raises THEN "Industry"
    ELSE LET text == Strip(response.text)
         IN IF Matching(text) # {}
            THEN TOPICS[CHOOSE i \in Matching(text) : \A j \in Matching(text) : i <= j]
            ELSE text

\* assign_topic_for_article: the first label of TOPICS that the stripped
\* text contains, compared in lower case; "Industry" when there is none or
\* the call raised.
assign_topic_for_article(response) ==
    IF response.raises THEN "Industry"
    ELSE LET text == Strip(response.text)
         IN IF Matching(text) # {}
            THEN TOPICS[CHOOSE i \in Matching(text) : \A j \in Matching(text) : i <= j]
            ELSE "Industry"

----------------------------------------------------------------------------
(* The handlers.  While cycles run one at a time, a handler other than the *)
(* digest cycle runs only when no cycle is in progress.                    *)

NoCycle == \A p \in Procs : cyc[p].pc = "idle"

Tick ==
    /\ now < MaxTime
    /\ now' = now + 1
    /\ UNCHANGED <<articles, next_id, digests, cyc, ret>>

\* fetch_all_feeds: the candidates the feeds yield are handed to add_article
\* one after the other; a dry run inserts nothing.
fetch_all_feeds(cands, dry_run) ==
    /\ NoCycle
    /\ next_id + Len(cands) - 1 <= MaxArticles
    /\ LET r == AddAll(articles, next_id, cands, now)
       IN /\ articles' = IF dry_run THEN articles ELSE r.arts
          /\ next_id' = IF dry_run THEN next_id ELSE r.nid
    /\ UNCHANGED <<digests, now, cyc, ret>>

\* assign_all: S is the rows the run processes (all rows without a topic,
\* or the first `limit` of them in the store's order), label their labels.
assign_all(S, label, dry_run) ==
    /\ NoCycle
    /\ S # {}
    /\ articles' = IF dry_run THEN articles ELSE SetTopics(articles, S, label)
    /\ UNCHANGED <<next_id, digests, now, cyc, ret>>

\* summarize_all: S is the rows without a summary that the run processes
\* and whose summarization returns a non-empty summary, out their analyses.
summarize_all(S, out, dry_run) ==
    /\ NoCycle
    /\ S # {}
    /\ articles' = IF dry_run THEN articles ELSE SetSummaries(articles, S, out)
    /\ UNCHANGED <<next_id, digests, now, cyc, ret>>

\* send_daily_digest, lines 223-226: read the configuration, choose the topic.
ChooseTopic(p, dry_run, test_email, cap, k) ==
    /\ cyc[p].pc = "idle"
    /\ \E order \in RowOrders(DOMAIN articles) :
         LET chosen_topic == choose_topic_for_today(articles, order, digests, now, k)
         IN \* the log gets a row only for a topic: at most MaxDigests rows
            /\ \/ IsNull(chosen_topic)
               \/ Len(digests) + Cardinality({q \in Procs : cyc[q].pc # "idle"}) < MaxDigests
            /\ cyc' = [cyc EXCEPT ![p] =
                         [IdleCycle EXCEPT !.pc = "chosen", !.dry_run = dry_run,
                             !.test_email = test_email, !.max_per_source = cap,
                             !.chosen_topic = chosen_topic,
                             !.store0 = articles, !.digests0 = Len(digests)]]
    /\ UNCHANGED <<articles, next_id, digests, now, ret>>

\* SelectArticles with the selected rows marked sent at once.
SelectArticles_MarkEarly(p) ==
    /\ cyc[p].pc = "chosen"
    /\ \E order \in RowOrders(DOMAIN articles) :
         LET c == cyc[p]
             sel == get_unsent_articles_for_digest(articles, order, c.max_per_source, TRUE,
                                                   c.chosen_topic)
         IN /\ cyc' = [cyc EXCEPT ![p].pc = "selected",
                          ![p].pool = Range(get_unsent_articles(articles, order, c.chosen_topic,
                                                                RequireSummary(c.chosen_topic))),
                          ![p].articles = sel,
                          ![p].need_summary = {a \in Range(sel) : IsNull(articles[a].summary)}]
            /\ articles' = [a \in DOMAIN articles |->
                               IF a \in Range(sel)
                               THEN [articles[a] EXCEPT !.sent_at = Some(now)]
                               ELSE articles[a]]
    /\ UNCHANGED <<next_id, digests, now, ret>>

\* lines 227-240: the selection, with the rows the query returned (pool).
SelectArticles(p) ==
    /\ cyc[p].pc = "chosen"
    /\ \E order \in RowOrders(DOMAIN articles) :
         LET c == cyc[p]
             sel == get_unsent_articles_for_digest(articles, order, c.max_per_source, TRUE,
                                                   c.chosen_topic)
         IN cyc' = [cyc EXCEPT ![p].pc = "selected",
                       ![p].pool = Range(get_unsent_articles(articles, order, c.chosen_topic,
                                                             RequireSummary(c.chosen_topic))),
                       ![p].articles = sel,
                       ![p].need_summary = {a \in Range(sel) : IsNull(articles[a].summary)}]
    /\ UNCHANGED <<articles, next_id, digests, now, ret>>

\* SummarizeSelected with dry_run not handed to summarize_selected.
SummarizeSelected_IgnoreDryRun(p, ok, out) ==
    /\ cyc[p].pc = "selected"
    /\ LET c == cyc[p]
           jit == ~IsNull(c.chosen_topic) /\ c.need_summary # {}
       IN /\ ok \subseteq c.need_summary
          /\ ~jit => ok = {}
          /\ articles' = SetSummaries(articles, ok, out)
          /\ cyc' = [cyc EXCEPT ![p].pc = IF c.articles = <<>> THEN "done" ELSE "summarized",
                                ![p].need_summary = c.need_summary \ ok]
    /\ UNCHANGED <<next_id, digests, now, ret>>

\* SummarizeSelected with the cycle given up when a summarization fails.
SummarizeSelected_AbortOnFailure(p, ok, out) ==
    /\ cyc[p].pc = "selected"
    /\ LET c == cyc[p]
           jit == ~IsNull(c.chosen_topic) /\ c.need_summary # {} /\ ~c.dry_run
       IN /\ ok \subseteq c.need_summary
          /\ ~jit => ok = {}
          /\ articles' = SetSummaries(articles, ok, out)
          /\ cyc' = [cyc EXCEPT ![p].pc = IF c.articles = <<>> \/ (jit /\ ok # c.need_summary)
                                          THEN "done" ELSE "summarized",
                                ![p].need_summary = c.need_summary \ ok]
    /\ UNCHANGED <<next_id, digests, now, ret>>

\* lines 232-244: summarize_selected on a topic's selection that lacks
\* summaries (ok: the rows whose summarization succeeds, out: their
\* analyses), and the return on an empty selection.
SummarizeSelected(p, ok, out) ==
    /\ cyc[p].pc = "selected"
    /\ LET c == cyc[p]
           jit == ~IsNull(c.chosen_topic) /\ c.need_summary # {} /\ ~c.dry_run
       IN /\ ok \subseteq c.need_summary
          /\ ~jit => ok = {}
          /\ articles' = SetSummaries(articles, ok, out)
          /\ cyc' = [cyc EXCEPT ![p].pc = IF c.articles = <<>> THEN "done" ELSE "summarized",
                                ![p].need_summary = c.need_summary \ ok]
    /\ UNCHANGED <<next_id, digests, now, ret>>

\* ShouldCommit with the commit refused when any send failed.
ShouldCommit_NoFailure(c) == ~c.dry_run /\ ~c.test_email /\ c.sent > 0 /\ c.failed = 0

\* ShouldCommit with the test recipient forgotten.
ShouldCommit_IgnoreTest(c) == ~c.dry_run /\ c.sent > 0

\* ShouldCommit with the test on sent left out.
ShouldCommit_NoSentCheck(c) == ~c.dry_run /\ ~c.test_email

\* line 298: not dry_run and not test_email and sent > 0
ShouldCommit(c) == ~c.dry_run /\ ~c.test_email /\ c.sent > 0

\* lines 248-298: the recipients (n active subscribers, or the test
\* recipient), one send each (good of them succeed; a dry run counts every
\* recipient as sent), then the decision to commit.
SendAll(p, n, good) ==
    /\ cyc[p].pc = "summarized"
    /\ LET c == cyc[p]
           recipients == IF c.test_email THEN 1 ELSE n
           sent == IF c.dry_run THEN recipients ELSE good
           d == [c EXCEPT !.sent = sent, !.failed = recipients - sent]
       IN /\ c.test_email => n = 1
          /\ good <= recipients
          /\ c.dry_run => good = recipients
          /\ cyc' = [cyc EXCEPT ![p] =
                      IF recipients = 0 THEN [c EXCEPT !.pc = "done"]
                      ELSE IF ShouldCommit(d)
                           THEN [d EXCEPT !.pc = "marking", !.todo = c.articles,
                                          !.sent_time = now]
                           ELSE [d EXCEPT !.pc = "done"]]
    /\ UNCHANGED <<articles, next_id, digests, now, ret>>

\* mark_articles_sent: one UPDATE per selected id.
MarkOne(p) ==
    /\ cyc[p].pc = "marking"
    /\ LET c == cyc[p]
       IN /\ articles' = mark_article_sent(articles, Head(c.todo), c.sent_time)
          /\ cyc' = [cyc EXCEPT ![p].todo = Tail(c.todo),
                                ![p].pc = IF Tail(c.todo) # <<>> THEN "marking"
                                          ELSE IF IsNull(c.chosen_topic) THEN "done"
                                          ELSE "logging"]
    /\ UNCHANGED <<next_id, digests, now, ret>>

\* insert_digest_log(chosen_topic)
InsertDigestLog(p) ==
    /\ cyc[p].pc = "logging"
    /\ digests' = Append(digests, [topic |-> Val(cyc[p].chosen_topic), sent_at |-> now])
    /\ cyc' = [cyc EXCEPT ![p].pc = "done"]
    /\ UNCHANGED <<articles, next_id, now, ret>>

\* The process of the invocation is terminated (killed, or a store or
\* network call raises) after it chose the topic and before it returns.
\* Its locals are kept as they were, to be compared with the store a later
\* run finds.
Crash(p) ==
    /\ cyc[p].pc \in {"chosen", "selected", "summarized", "marking", "logging"}
    /\ cyc' = [cyc EXCEPT ![p].pc = "crashed", ![p].at = cyc[p].pc,
                          ![p].need_summary = {}, ![p].todo = <<>>,
                          ![p].sent = 0, ![p].failed = 0]
    /\ UNCHANGED <<articles, next_id, digests, now, ret>>

\* send_daily_digest returns, or the terminated process is gone; the
\* invocation ends.
Return(p) ==
    /\ cyc[p].pc \in {"done", "crashed"}
    /\ cyc' = [cyc EXCEPT ![p] = IdleCycle]
    /\ UNCHANGED <<articles, next_id, digests, now, ret>>

Candidates1 == {[url |-> u, source |-> s] : u \in Urls, s \in Sources}
Batches == UNION {[1..n -> Candidates1] : n \in 1..MaxBatch}
\* Unlabelled with the rows that have a topic included.
Unlabelled_All == DOMAIN articles

\* get_articles_without_topic, get_unsummarized_articles
Unlabelled == {a \in DOMAIN articles : IsNull(articles[a].topic)}
Unsummarized == {a \in DOMAIN articles : IsNull(articles[a].summary)}

Ingest == \E cands \in Batches, dry_run \in BOOLEAN : fetch_all_feeds(cands, dry_run)

Assign ==
    \E S \in SUBSET Unlabelled, dry_run \in BOOLEAN :
        \E resp \in [S -> Responses] :
            assign_all(S, [a \in S |-> assign_topic_for_article(resp[a])], dry_run)

Summarize ==
    \E S \in SUBSET Unsummarized, dry_run \in BOOLEAN :
        \E out \in [S -> Analyses] : summarize_all(S, out, dry_run)

Cycle(p) ==
    \/ \E dry_run \in BOOLEAN, test_email \in BOOLEAN, cap \in 1..MaxCap, k \in 0..MaxCooldown :
          ChooseTopic(p, dry_run, test_email, cap, k)
    \/ SelectArticles(p)
    \/ \E ok \in SUBSET cyc[p].need_summary :
          \E out \in [ok -> Analyses] : SummarizeSelected(p, ok, out)
    \/ \E n \in 0..MaxSubscribers, good \in 0..MaxSubscribers : SendAll(p, n, good)
    \/ MarkOne(p)
    \/ InsertDigestLog(p)
    \/ Crash(p)
    \/ Return(p)

Init ==
    /\ articles = <<>>
    /\ next_id = 1
    /\ digests = <<>>
    /\ now = 0
    /\ cyc = [p \in Procs |-> IdleCycle]
    /\ ret = NoCall

Next ==
    \/ Tick
    \/ Ingest
    \/ Assign
    \/ Summarize
    \/ \E p \in SeqProcs : Cycle(p)

Spec == Init /\ [][Next]_vars

\* cleanup_old_articles.py, with ingest runs and digest cycles, one at a time
RetentionTime == 2     \* the clock of these runs goes up to this day
MaxRetention == 1      \* most days of retention (--days is at least 1)

\* delete_articles_older_than at time t: DELETE WHERE fetched_at < cutoff
delete_articles_older_than(arts, t, days) ==
    LET kept == {a \in DOMAIN arts : ~(arts[a].fetched_at < t - days)}
    IN [a \in kept |-> arts[a]]

\* the urls of the sent rows that cleanup runs have deleted so far
DeletedSentUrls == IF ret.fn = "cleanup" THEN ret.sent_urls ELSE {}

\* main of cleanup_old_articles.py: a dry run counts only; the rows deleted
\* are returned by the store, and the urls of the sent ones are recorded.
Cleanup(days, dry_run) ==
    /\ NoCycle
    /\ LET after == delete_articles_older_than(articles, now, days)
           gone == DOMAIN articles \ DOMAIN after
       IN /\ articles' = IF dry_run THEN articles ELSE after
          /\ ret' = IF dry_run THEN ret
                    ELSE [fn |-> "cleanup",
                          sent_urls |-> DeletedSentUrls \cup
                             {articles[a].url : a \in {x \in gone : ~IsNull(articles[x].sent_at)}}]
    /\ UNCHANGED <<next_id, digests, now, cyc>>

TickRetention ==
    /\ now < RetentionTime
    /\ now' = now + 1
    /\ UNCHANGED <<articles, next_id, digests, cyc, ret>>

\* A real run of send_daily_digest with one subscriber
RetentionCycle(p) ==
    \/ ChooseTopic(p, FALSE, FALSE, MaxCap, MaxCooldown)
    \/ SelectArticles(p)
    \/ \E ok \in SUBSET cyc[p].need_summary :
          \E out \in [ok -> Analyses] : SummarizeSelected(p, ok, out)
    \/ \E good \in 0..1 : SendAll(p, 1, good)
    \/ MarkOne(p)
    \/ InsertDigestLog(p)
    \/ Return(p)

NextRetention ==
    \/ TickRetention
    \/ Ingest
    \/ Assign
    \/ \E days \in 1..MaxRetention, dry_run \in BOOLEAN : Cleanup(days, dry_run)
    \/ \E p \in SeqProcs : RetentionCycle(p)

SpecRetention == Init /\ [][NextRetention]_vars

\* Digest cycles run again and again on a store that gets no new article:
\* no dry run, at least one recipient, at least one send that succeeds.
ProgressRows == 2     \* most articles in the store of these cycles

ProgressStores ==
    LET rows == {Row("", 1, tp, sm, 0, NULL) :
                    tp \in {NULL, Some(TOPICS[1]), Some(TOPICS[4])}, sm \in {NULL, Some("s")}}
        all == UNION {[1..n -> rows] : n \in 0..ProgressRows}
    IN {[i \in DOMAIN st |-> [st[i] EXCEPT !.url = RowUrl(i)]] : st \in all}

InitProgress ==
    /\ articles \in ProgressStores
    /\ next_id = Cardinality(DOMAIN articles) + 1
    /\ digests = <<>>
    /\ now = 0
    /\ cyc = [p \in Procs |-> IdleCycle]
    /\ ret = NoCall

ProgressCycle(p) ==
    \/ \E test_email \in BOOLEAN, cap \in 1..MaxCap :
          ChooseTopic(p, FALSE, test_email, cap, MaxCooldown)
    \/ SelectArticles(p)
    \/ \E ok \in SUBSET cyc[p].need_summary :
          \E out \in [ok -> Analyses] : SummarizeSelected(p, ok, out)
    \/ \E n \in 1..MaxSubscribers, good \in 1..MaxSubscribers : SendAll(p, n, good)
    \/ MarkOne(p)
    \/ InsertDigestLog(p)
    \/ Return(p)

\* the cycles, one at a time
ProgressCycles == \E p \in SeqProcs : ProgressCycle(p)

NextProgress ==
    \/ Assign
    \/ Summarize
    \/ ProgressCycles

\* Every invocation goes on to its return (its loops are over finite lists),
\* and the scheduler invokes the cycle again.
SpecProgress == InitProgress /\ [][NextProgress]_vars /\ WF_vars(ProgressCycles)

\* Digest cycles of separate invocations, with nothing that keeps the steps
\* of one from falling between the steps of another: the store holds unsent
\* articles of one topic, with or without summary, and each process of Procs
\* may begin its invocation and go on with it at any time.
ConcRows == 2      \* most articles in the store of these cycles

ConcStores ==
    LET rows == {Row("", 1, Some(TOPICS[1]), sm, 0, NULL) : sm \in {NULL, Some("s")}}
        all == UNION {[1..n -> rows] : n \in 1..ConcRows}
    IN {[i \in DOMAIN st |-> [st[i] EXCEPT !.url = RowUrl(i)]] : st \in all}

InitConc ==
    /\ articles \in ConcStores
    /\ next_id = Cardinality(DOMAIN articles) + 1
    /\ digests = <<>>
    /\ now = 0
    /\ cyc = [p \in Procs |-> IdleCycle]
    /\ ret = NoCall

\* One invocation of send_daily_digest per process, real or dry run, with
\* one subscriber.
ConcCycle(p) ==
    \/ \E dry_run \in BOOLEAN : ChooseTopic(p, dry_run, FALSE, MaxCap, MaxCooldown)
    \/ SelectArticles(p)
    \/ \E ok \in SUBSET cyc[p].need_summary :
          \E out \in [ok -> Analyses] : SummarizeSelected(p, ok, out)
    \/ \E good \in 0..1 : SendAll(p, 1, good)
    \/ MarkOne(p)
    \/ InsertDigestLog(p)

NextConc == \E p \in Procs : ConcCycle(p)

SpecConc == InitConc /\ [][NextConc]_vars

\* Direct calls of add_article, one at a time, as fetch_all_feeds and
\* fetch_all_accounts make them; the call, the table it found and the value
\* it returned (the new row, by its id, or None) are recorded.
CallAddArticle ==
    \E url \in AddUrls, source \in Sources :
          /\ UrlExists(articles, url) \/ next_id <= MaxAdds
          /\ articles' = add_article(articles, next_id, url, source, now)
          /\ next_id' = IF UrlExists(articles, url) THEN next_id ELSE next_id + 1
          /\ ret' = [fn |-> "add_article", url |-> url, before |-> articles,
                     value |-> IF UrlExists(articles, url) THEN NULL ELSE Some(next_id)]
          /\ UNCHANGED <<digests, now, cyc>>

NextIngest == Tick \/ CallAddArticle

SpecIngest == Init /\ [][NextIngest]_vars

----------------------------------------------------------------------------
(* assign_topics.py: calls of assign_topic_for_article on the rows of a     *)
(* store, one response each                                                 *)

ClassifyRows == 2     \* rows without topic in the store of these calls

\* Texts a classifier may answer with: a label of TOPICS, as it is, in lower
\* or in upper case, a word that is no label, or nothing, alone or inside a
\* sentence, possibly with a second label after it.
ClassifierTexts ==
    LET bodies == TopicSet \cup {"models", "SAFETY", "agents & tools", "Agents", "Model",
                                  "Other", ""}
    IN {pre \o body \o post :
           pre \in {"", " ", "Topic: "}, body \in bodies, post \in {"", ". ", " / Safety"}}

ClassifierResponses == {Response(TRUE, "")} \cup {Response(FALSE, t) : t \in ClassifierTexts}

InitClassify ==
    /\ articles = [i \in 1..ClassifyRows |-> Row(RowUrl(i), 1, NULL, NULL, 0, NULL)]
    /\ next_id = ClassifyRows + 1
    /\ digests = <<>>
    /\ now = 0
    /\ cyc = [p \in Procs |-> IdleCycle]
    /\ ret = NoCall

\* One turn of the loop of assign_all: the row, the classifier's response,
\* the label and the write of it.
CallAssignTopic ==
    \E a \in Unlabelled, response \in ClassifierResponses :
        LET topic == assign_topic_for_article(response)
        IN /\ articles' = update_article_topic(articles, a, topic)
           /\ ret' = [fn |-> "assign_topic", id |-> a, response |-> response, value |-> topic]
           /\ UNCHANGED <<next_id, digests, now, cyc>>

SpecClassify == InitClassify /\ [][CallAssignTopic]_vars

----------------------------------------------------------------------------
(* fetch_ai_news.py: fetch_feed and the loop of fetch_all_feeds over the   *)
(* merged feeds                                                            *)

MaxFeeds == 2        \* most feeds a run of fetch_all_feeds is handed

\* How one attempt at a feed url ends: _parse_feed_url raises, the parsed
\* feed is malformed (bozo), it has no entries, or it has entries, of which
\* `found` are accepted as candidates (possibly none).
Attempts ==
    {[kind |-> k, found |-> <<>>] : k \in {"raises", "bozo", "empty", "entries"}}
    \cup {[kind |-> "entries", found |-> <<u>>] : u \in Urls}

\* The feeds of a run: feed i has source i, its own primary_url and,
\* possibly, its own fallback_url.
FeedConfigs ==
    UNION {{[i \in 1..n |-> [source |-> i, primary_url |-> "primary" \o ToString(i),
                              fallback_url |-> IF fb[i] THEN Some("fallback" \o ToString(i))
                                               ELSE NULL]] :
               fb \in [1..n -> BOOLEAN]} : n \in 1..MaxFeeds}

\* the candidates of an attempt that ended with entries, for feed_config
Found(feed_config, attempt) ==
    [k \in 1..Len(attempt.found) |-> [url |-> attempt.found[k], source |-> feed_config.source]]

\* fetch_feed with zero entries at the primary url taken as the result.
fetch_feed_EmptyIsFinal(feed_config, primary, fallback) ==
    IF primary.kind \in {"entries", "empty"}
    THEN [tried |-> <<feed_config.primary_url>>, articles |-> Found(feed_config, primary)]
    ELSE IF IsNull(feed_config.fallback_url)
    THEN [tried |-> <<feed_config.primary_url>>, articles |-> <<>>]
    ELSE [tried |-> <<feed_config.primary_url, Val(feed_config.fallback_url)>>,
          articles |-> IF fallback.kind = "entries" THEN Found(feed_config, fallback) ELSE <<>>]

\* fetch_feed: the loop over (primary_url, fallback_url), with how the
\* attempt at each ends; the value is the urls tried, in order, and the
\* candidates returned.
fetch_feed(feed_config, primary, fallback) ==
    IF primary.kind = "entries"
    THEN [tried |-> <<feed_config.primary_url>>, articles |-> Found(feed_config, primary)]
    ELSE IF IsNull(feed_config.fallback_url)
    THEN [tried |-> <<feed_config.primary_url>>, articles |-> <<>>]
    ELSE [tried |-> <<feed_config.primary_url, Val(feed_config.fallback_url)>>,
          articles |-> IF fallback.kind = "entries" THEN Found(feed_config, fallback) ELSE <<>>]

\* the loop of fetch_all_feeds: fetch_feed for every feed, in order
FetchEach(feeds, primary, fallback) ==
    [i \in 1..Len(feeds) |-> fetch_feed(feeds[i], primary[i], fallback[i])]

\* A run of fetch_all_feeds on given feeds, with how each attempt ends; the
\* feeds, the attempts and what fetch_feed returned for each are recorded.
FetchRun ==
    /\ ret = NoCall
    /\ \E feeds \in FeedConfigs, dry_run \in BOOLEAN :
         \E primary \in [1..Len(feeds) -> Attempts], fallback \in [1..Len(feeds) -> Attempts] :
            LET each == FetchEach(feeds, primary, fallback)
                r == AddAll(articles, next_id, Flatten([i \in 1..Len(feeds) |-> each[i].articles]),
                            now)
            IN \* a feed without fallback_url has no second attempt to vary
               /\ \A i \in 1..Len(feeds) : IsNull(feeds[i].fallback_url) => fallback[i].kind = "raises"
               /\ articles' = IF dry_run THEN articles ELSE r.arts
               /\ next_id' = IF dry_run THEN next_id ELSE r.nid
               /\ ret' = [fn |-> "fetch_all", feeds |-> feeds, dry_run |-> dry_run,
                          primary |-> primary, fallback |-> fallback, each |-> each]
    /\ UNCHANGED <<digests, now, cyc>>

SpecFetch == Init /\ [][FetchRun]_vars

----------------------------------------------------------------------------
(* feed_config.py: the merge of the directive feeds (primary list) and the *)
(* feed_urls list (secondary list).  Names are strings, handled character  *)
(* by character as the code does.                                          *)

MaxPrimary == 2      \* longest directive (primary) list
MaxSecondary == 3    \* longest feed_urls (secondary) list

\* s.split()[0] for a string with a non-blank character
FirstWord(s) ==
    LET t == Strip(s)
        gaps == {i \in 1..Len(t) : CharAt(t, i) = " "}
    IN IF gaps = {} THEN t
       ELSE SubSeq(t, 1, (CHOOSE i \in gaps : \A j \in gaps : i <= j) - 1)

Suffixes == <<" blog", " ai", " news", " research">>

\* the loop of _normalize_for_match over the suffixes from the i-th on
RECURSIVE StripSuffixes(_, _)
StripSuffixes(s, i) ==
    IF i > Len(Suffixes) THEN s
    ELSE StripSuffixes(IF EndsWith(s, Suffixes[i])
                       THEN Strip(SubSeq(s, 1, Len(s) - Len(Suffixes[i])))
                       ELSE s, i + 1)

_normalize_for_match(s) == StripSuffixes(Strip(Lower(s)), 1)

_is_same_source(directive_name, feed_url_name) ==
    LET norm_d == _normalize_for_match(directive_name)
        norm_fu == _normalize_for_match(feed_url_name)
    IN \/ norm_d = norm_fu
       \/ Contains(norm_d, norm_fu)
       \/ Contains(norm_fu, norm_d)
       \/ /\ norm_d # "" /\ norm_fu # ""
          /\ FirstWord(norm_d) = FirstWord(norm_fu)

\* FirstMatch without the break: the last matching entry.
FirstMatch_Last(d, feed_urls_list) ==
    LET hits == {i \in 1..Len(feed_urls_list) : _is_same_source(d.source, feed_urls_list[i].name)}
    IN IF hits = {} THEN 0 ELSE CHOOSE i \in hits : \A j \in hits : j <= i

\* the inner loop of step 1: the index of the first entry of feed_urls_list
\* that is the same source as d, 0 when there is none
FirstMatch(d, feed_urls_list) ==
    LET hits == {i \in 1..Len(feed_urls_list) : _is_same_source(d.source, feed_urls_list[i].name)}
    IN IF hits = {} THEN 0 ELSE CHOOSE i \in hits : \A j \in hits : i <= j

\* step 1: one entry per directive feed
MergeDirective(directive_feeds, feed_urls_list) ==
    [k \in 1..Len(directive_feeds) |->
        LET d == directive_feeds[k]
            i == FirstMatch(d, feed_urls_list)
        IN [name |-> d.name, source |-> d.source, primary_url |-> d.url,
            fallback_url |-> IF i = 0 THEN NULL ELSE Some(feed_urls_list[i].url)]]

used_feed_urls_indices(directive_feeds, feed_urls_list) ==
    {FirstMatch(directive_feeds[k], feed_urls_list) : k \in 1..Len(directive_feeds)} \ {0}

\* step 2: the feed_urls entries from the i-th on that were not used as a
\* fallback and are not the same source as an entry merged so far
RECURSIVE MergeAdditional(_, _, _, _)
MergeAdditional(merged, feed_urls_list, used, i) ==
    IF i > Len(feed_urls_list) THEN merged
    ELSE LET fu == feed_urls_list[i]
             already == \E k \in 1..Len(merged) : _is_same_source(merged[k].source, fu.name)
         IN IF i \in used \/ already
            THEN MergeAdditional(merged, feed_urls_list, used, i + 1)
            ELSE MergeAdditional(
                    Append(merged, [name |-> fu.name, source |-> fu.name,
                                    primary_url |-> fu.url, fallback_url |-> NULL]),
                    feed_urls_list, used, i + 1)

build_merged_feeds(directive_feeds, feed_urls_list) ==
    MergeAdditional(MergeDirective(directive_feeds, feed_urls_list), feed_urls_list,
                    used_feed_urls_indices(directive_feeds, feed_urls_list), 1)

\* The names the two files may hold, and the lists made of them.  Every
\* entry has a url of its own, given by its list and position.
FeedNames == {"Google AI Blog", "Google AI", "Google DeepMind", "OpenAI", "AI News", "MIT News"}
DirectiveUrls == <<"urlA", "urlC", "urlE", "urlG">>
FeedUrlsUrls == <<"urlB", "urlD", "urlF", "urlH", "urlJ">>

\* load_directive_feeds: entries {name, source, url} with source = name
DirectiveLists ==
    UNION {{[i \in 1..n |-> [name |-> f[i], source |-> f[i], url |-> DirectiveUrls[i]]] :
                f \in [1..n -> FeedNames]} : n \in 0..MaxPrimary}

\* load_feed_urls: entries {name, url}
FeedUrlsLists ==
    UNION {{[i \in 1..n |-> [name |-> f[i], url |-> FeedUrlsUrls[i]]] :
                f \in [1..n -> FeedNames]} : n \in 0..MaxSecondary}

InitMerge ==
    /\ articles = <<>>
    /\ next_id = 1
    /\ digests = <<>>
    /\ now = 0
    /\ cyc = [p \in Procs |-> IdleCycle]
    /\ ret = NoCall

\* get_merged_feeds: load the two lists and merge them
get_merged_feeds ==
    /\ ret = NoCall
    /\ \E directive \in DirectiveLists, feed_urls \in FeedUrlsLists :
          ret' = [fn |-> "merge", primary |-> directive, secondary |-> feed_urls,
                  value |-> build_merged_feeds(directive, feed_urls)]
    /\ UNCHANGED <<articles, next_id, digests, now, cyc>>

SpecMerge == InitMerge /\ [][get_merged_feeds]_vars

----------------------------------------------------------------------------
(* Properties of select = get_unsent_articles_for_digest, under SpecSelect *)

Selected == ret.fn = "select"
SrcOf(a) == articles[a].source
FetchedAt(a) == articles[a].fetched_at
\* positions of seq holding a row of source s
At(seq, s) == {i \in 1..Len(seq) : SrcOf(seq[i]) = s}
Min(a, b) == IF a < b THEN a ELSE b
NoRepeats(seq) == \A i, j \in 1..Len(seq) : seq[i] = seq[j] => i = j

\* C4: select keeps min(n, max_per_source) rows of each source, all taken
\* from the pool without repetition, and no omitted row of a source is
\* strictly newer than a kept row of the same source.
C4_PerSourceCapNewest ==
    Selected =>
        LET out == ret.value
            pool == ret.pool
        IN /\ Range(out) \subseteq Range(pool)
           /\ NoRepeats(out)
           /\ \A s \in PoolSourceSet :
                /\ Cardinality(At(out, s)) <= ret.max_per_source
                /\ Cardinality(At(out, s)) = Min(Cardinality(At(pool, s)), ret.max_per_source)
                /\ \A i \in At(pool, s), j \in At(out, s) :
                      pool[i] \notin Range(out) => ~(FetchedAt(pool[i]) > FetchedAt(out[j]))

\* C4 witness: a source has more rows than the cap and the cap dropped a
\* row strictly older than a kept one.
C4_Witness ==
    /\ Selected
    /\ \E s \in PoolSourceSet :
         /\ Cardinality(At(ret.pool, s)) > ret.max_per_source
         /\ \E i \in At(ret.pool, s), j \in At(ret.value, s) :
               ret.pool[i] \notin Range(ret.value) /\ FetchedAt(ret.pool[i]) < FetchedAt(ret.value[j])

\* number of rows of the same source before position p
Rank(seq, p) == Cardinality({q \in 1..(p - 1) : SrcOf(seq[q]) = SrcOf(seq[p])})

\* the store of the example: three rows of source 1 ("A") of different ages
\* and one row of source 2 ("B")
ExamplePool ==
    /\ Cardinality(At(ret.pool, 1)) = 3
    /\ Cardinality(At(ret.pool, 2)) = 1
    /\ Len(ret.pool) = 4
    /\ \A i, j \in At(ret.pool, 1) : FetchedAt(ret.pool[i]) = FetchedAt(ret.pool[j]) => i = j
    /\ ret.max_per_source = 3

\* the k-th newest row of source s in the pool (ages all different)
Newest(s, k) ==
    LET i == CHOOSE i \in At(ret.pool, s) :
                Cardinality({j \in At(ret.pool, s) :
                                FetchedAt(ret.pool[j]) > FetchedAt(ret.pool[i])}) = k - 1
    IN ret.pool[i]

\* C9: with interleave on, the output is made of rounds: the rows come in
\* order of (rank within their source, source key), a source's rows come
\* newest first, and for three rows of A and one of B with cap 3 the output
\* is [A1, B1, A2, A3].
C9_InterleaveRounds ==
    (Selected /\ ret.interleave) =>
        LET out == ret.value
        IN /\ \A p, q \in 1..Len(out) :
                p < q => \/ Rank(out, p) < Rank(out, q)
                         \/ Rank(out, p) = Rank(out, q) /\ SrcOf(out[p]) < SrcOf(out[q])
           /\ \A p, q \in 1..Len(out) :
                (p < q /\ SrcOf(out[p]) = SrcOf(out[q])) => FetchedAt(out[p]) >= FetchedAt(out[q])
           /\ ExamplePool => out = <<Newest(1, 1), Newest(2, 1), Newest(1, 2), Newest(1, 3)>>

\* C9 witness: the example's call has been made.
C9_Witness == Selected /\ ret.interleave /\ ExamplePool

\* C10: with interleave on, two adjacent output rows share a source only
\* when every row from the second one on is of that source.
C10_AdjacentSources ==
    (Selected /\ ret.interleave) =>
        LET out == ret.value
        IN \A p \in 1..(Len(out) - 1) :
              SrcOf(out[p]) = SrcOf(out[p + 1]) =>
                 \A q \in (p + 1)..Len(out) : SrcOf(out[q]) = SrcOf(out[p])

\* C10 witness: two sources are in the output, the first rows alternate and
\* the tail repeats the one source that is left.
C10_Witness ==
    /\ Selected /\ ret.interleave
    /\ Len(ret.value) >= 4
    /\ SrcOf(ret.value[1]) # SrcOf(ret.value[2])
    /\ SrcOf(ret.value[3]) = SrcOf(ret.value[4])

\* the output of the interleaved branch for the rows this call was handed
Interleaved == get_unsent_articles_for_digest(articles, ret.pool, ret.max_per_source, TRUE, NULL)

\* C11: with interleave off, the output is ordered by fetched_at descending
\* (no row is older than the row after it), repeats no row, and holds exactly
\* the rows of the interleaved output for the same rows and cap.
C11_FlatRecencyOrder ==
    (Selected /\ ~ret.interleave) =>
        LET out == ret.value
        IN /\ \A p \in 1..(Len(out) - 1) : FetchedAt(out[p]) >= FetchedAt(out[p + 1])
           /\ NoRepeats(out)
           /\ Len(out) = Len(Interleaved)
           /\ Range(out) = Range(Interleaved)

\* C11 witness: a call without interleaving whose output has rows of two
\* sources and three ages, cut by the cap, and differs from the interleaved
\* order.
C11_Witness ==
    /\ Selected /\ ~ret.interleave
    /\ Len(ret.value) < Len(ret.pool)
    /\ \E p, q \in 1..Len(ret.value) : SrcOf(ret.value[p]) # SrcOf(ret.value[q])
    /\ Cardinality({FetchedAt(ret.value[p]) : p \in 1..Len(ret.value)}) >= 3
    /\ ret.value # Interleaved

\* C12: a second call with the same cap and flag on the unchanged store
\* returns the list the first call returned, whatever order the store hands
\* its rows back in.
C12_SelectPureFunction ==
    Selected =>
        \A order \in RowOrders(DOMAIN articles) :
            get_unsent_articles_for_digest(articles, order, ret.max_per_source,
                                           ret.interleave, NULL) = ret.value


----------------------------------------------------------------------------
(* Properties of choose_topic = choose_topic_for_today, under SpecTopic *)

Chose == ret.fn = "choose_topic"
\* unsent rows labelled t
Pending(t) == {a \in DOMAIN articles : IsNull(articles[a].sent_at) /\ articles[a].topic = Some(t)}
PendingTopics == {t \in TopicSet : Pending(t) # {}}
\* topics of a log row not older than k days
InCooldown(k) == {t \in TopicSet : \E i \in 1..Len(digests) :
                     digests[i].topic = t /\ digests[i].sent_at >= now - k}
Eligible(k) == PendingTopics \ InCooldown(k)

\* C5: when some topic with pending rows is outside the cooldown window, the
\* topic returned is outside it too and no such topic has more pending rows.
C5_CooldownExcludes ==
    (Chose /\ Eligible(ret.cooldown_days) # {}) =>
        /\ ~IsNull(ret.value)
        /\ Val(ret.value) \in Eligible(ret.cooldown_days)
        /\ \A t \in Eligible(ret.cooldown_days) :
              Cardinality(Pending(t)) <= Cardinality(Pending(Val(ret.value)))

\* C5 witness: "Safety" is in the cooldown window and has the most pending
\* rows, another topic is eligible, and a topic was returned.
C5_Witness ==
    /\ Chose
    /\ "Safety" \in InCooldown(ret.cooldown_days)
    /\ \A t \in TopicSet \ {"Safety"} :
          Cardinality(Pending(t)) < Cardinality(Pending("Safety"))
    /\ Eligible(ret.cooldown_days) # {}
    /\ ~IsNull(ret.value)

Candidates(k) == IF Eligible(k) = {} THEN PendingTopics ELSE Eligible(k)
MostPending(k) == {t \in Candidates(k) :
                     \A u \in Candidates(k) : Cardinality(Pending(u)) <= Cardinality(Pending(t))}

\* C7: among the candidate topics with the highest pending count the one
\* returned is the first of the enumeration TOPICS, whatever the row order.
C7_TieByEnumeration ==
    (Chose /\ PendingTopics # {}) =>
        /\ ~IsNull(ret.value)
        /\ Val(ret.value) \in MostPending(ret.cooldown_days)
        /\ \A t \in MostPending(ret.cooldown_days) :
              TopicIndex(Val(ret.value)) <= TopicIndex(t)


----------------------------------------------------------------------------
(* Properties of the digest cycle, under Spec (cycles run one at a time) *)

Unsent == {a \in DOMAIN articles : IsNull(articles[a].sent_at)}
\* the rows appended to the digest log since the cycle of c began
NewLog(c) == SubSeq(digests, c.digests0 + 1, Len(digests))
RealRun(c) == ~c.dry_run /\ ~c.test_email

\* C1: when a cycle that is neither a dry run nor a test ends with at least
\* one successful send, every selected article has a sent_at, and the log
\* has gained exactly one row, for the chosen topic, or none when no topic
\* was chosen.
C1_CommitAfterSend ==
    \A p \in Procs :
        LET c == cyc[p]
        IN (c.pc = "done" /\ RealRun(c) /\ c.sent >= 1) =>
              /\ \A a \in Range(c.articles) :
                    a \in DOMAIN articles /\ ~IsNull(articles[a].sent_at)
              /\ IF IsNull(c.chosen_topic) THEN NewLog(c) = <<>>
                 ELSE Len(NewLog(c)) = 1 /\ NewLog(c)[1].topic = Val(c.chosen_topic)

\* C1 witness: a real run on a topic ended with one send succeeded and one
\* failed.
C1_Witness ==
    \E p \in Procs :
        /\ cyc[p].pc = "done" /\ RealRun(cyc[p])
        /\ cyc[p].sent >= 1 /\ cyc[p].failed >= 1
        /\ ~IsNull(cyc[p].chosen_topic)
        /\ cyc[p].articles # <<>>

\* C2: no step of a cycle in dry-run mode or with a test recipient changes
\* the sent_at of any article or the digest log.
C2_DryRunTestNoCommit ==
    [][\A p \in Procs :
          (cyc[p].pc # "idle" /\ cyc'[p] # cyc[p] /\ ~RealRun(cyc[p])) =>
             /\ digests' = digests
             /\ DOMAIN articles' = DOMAIN articles
             /\ \A a \in DOMAIN articles : articles'[a].sent_at = articles[a].sent_at]_vars

\* C2 witness: a cycle with a test recipient (not a dry run) has ended after
\* a real send that succeeded.
C2_Witness ==
    \E p \in Procs :
        /\ cyc[p].pc = "done" /\ cyc[p].test_email /\ ~cyc[p].dry_run
        /\ cyc[p].sent >= 1
        /\ cyc[p].articles # <<>>

\* C3: in no step is the sent_at of a sent article changed or cleared, and
\* no selection a cycle makes contains a sent article.
C3_SentIsTerminal ==
    [][\A a \in DOMAIN articles :
          ~IsNull(articles[a].sent_at) =>
             /\ a \in DOMAIN articles' => articles'[a].sent_at = articles[a].sent_at
             /\ \A p \in Procs :
                   (cyc[p].pc = "chosen" /\ cyc'[p].pc = "selected") =>
                      a \notin Range(cyc'[p].articles)]_vars

\* C3 witness: a cycle has made a non-empty selection while the store holds
\* an article sent by an earlier cycle at an earlier time.
C3_Witness ==
    \E p \in Procs, a \in DOMAIN articles :
        /\ cyc[p].pc = "selected" /\ cyc[p].articles # <<>>
        /\ ~IsNull(articles[a].sent_at)
        /\ Val(articles[a].sent_at) < now

\* C8: at the selection, no topic was chosen exactly when no unsent article
\* has a topic; the pool is then the unsent articles with a summary, and
\* with a topic chosen it is the unsent articles of that topic.
C8_PoolByMode ==
    \A p \in Procs :
        LET c == cyc[p]
        IN c.pc = "selected" =>
              /\ IsNull(c.chosen_topic) <=> \A a \in Unsent : IsNull(articles[a].topic)
              /\ IsNull(c.chosen_topic) =>
                    c.pool = {a \in Unsent : ~IsNull(articles[a].summary)}
              /\ ~IsNull(c.chosen_topic) =>
                    c.pool = {a \in Unsent : articles[a].topic = c.chosen_topic}

\* C8 witness: a topic was chosen and its pool holds an article with a
\* summary and one without.
C8_Witness ==
    \E p \in Procs :
        /\ cyc[p].pc = "selected" /\ ~IsNull(cyc[p].chosen_topic)
        /\ \E a, b \in cyc[p].pool :
              IsNull(articles[a].summary) /\ ~IsNull(articles[b].summary)


----------------------------------------------------------------------------
(* Properties of merge = build_merged_feeds, under SpecMerge *)

Merged == ret.fn = "merge"
\* positions of the secondary list that are the same source as name
Matches(name) == {j \in 1..Len(ret.secondary) : _is_same_source(name, ret.secondary[j].name)}

\* C13: no two entries of the output of merge have names that match (equal
\* normalized names, one a substring of the other, or equal first word).
C13_NoMatchingPair ==
    Merged =>
        \A i, j \in 1..Len(ret.value) :
            i # j => ~_is_same_source(ret.value[i].name, ret.value[j].name)

\* C14: the url of every secondary entry is in the output exactly once, as
\* the fallback_url of one entry or as the primary_url of one standalone
\* entry.
C14_SecondaryUsedOnce ==
    Merged =>
        \A j \in 1..Len(ret.secondary) :
            LET u == ret.secondary[j].url
                fallbacks == {k \in 1..Len(ret.value) : ret.value[k].fallback_url = Some(u)}
                standalone == {k \in 1..Len(ret.value) : ret.value[k].primary_url = u}
            IN Cardinality(fallbacks) + Cardinality(standalone) = 1

\* C15: the output begins with one entry per primary entry, in primary-list
\* order, with that entry's name and url and, as fallback_url, the url of
\* the first secondary entry that matches it (none when none matches); the
\* output is no longer than the two lists together; and primary
\* [Google AI Blog, urlA] with secondary [Google AI, urlB] gives the single
\* entry {Google AI Blog, urlA, fallback urlB}.
C15_PrimaryEntriesInOrder ==
    Merged =>
        LET out == ret.value
            np == Len(ret.primary)
        IN /\ np <= Len(out)
           /\ Len(out) <= np + Len(ret.secondary)
           /\ \A k \in 1..np :
                /\ out[k].name = ret.primary[k].name
                /\ out[k].primary_url = ret.primary[k].url
                /\ out[k].fallback_url =
                      IF Matches(ret.primary[k].name) = {} THEN NULL
                      ELSE Some(ret.secondary[CHOOSE j \in Matches(ret.primary[k].name) :
                                   \A i \in Matches(ret.primary[k].name) : j <= i].url)
           /\ \A k \in (np + 1)..Len(out) : IsNull(out[k].fallback_url)
           /\ (/\ ret.primary = <<[name |-> "Google AI Blog", source |-> "Google AI Blog",
                                   url |-> "urlA"]>>
               /\ ret.secondary = <<[name |-> "Google AI", url |-> "urlB"]>>)
                 => out = <<[name |-> "Google AI Blog", source |-> "Google AI Blog",
                             primary_url |-> "urlA", fallback_url |-> Some("urlB")]>>

\* C15 witness: two primary entries, the first matched by two secondary
\* entries of which the later one is not first in the list, the second
\* matched by none.
C15_Witness ==
    /\ Merged
    /\ Len(ret.primary) = 2
    /\ Cardinality(Matches(ret.primary[1].name)) = 2
    /\ 1 \notin Matches(ret.primary[1].name)
    /\ Matches(ret.primary[2].name) = {}
    /\ ~IsNull(ret.value[1].fallback_url) /\ IsNull(ret.value[2].fallback_url)


----------------------------------------------------------------------------
(* Properties of the commit step and of interrupted cycles, under Spec *)

\* the invocation has ended: it returned or its process was terminated
Ended(c) == c.pc \in {"done", "crashed"}
\* the selected articles that have a sent_at
Marked(c) == {a \in Range(c.articles) : a \in DOMAIN articles /\ ~IsNull(articles[a].sent_at)}
\* the articles that were unsent when the cycle began
Unsent0(c) == {a \in DOMAIN c.store0 : IsNull(c.store0[a].sent_at)}
\* the cycle ended without reaching the commit step
NoCommit(c) == c.pc = "done" /\ (c.sent = 0 \/ c.dry_run \/ c.test_email)
\* the article fields a summarization writes
AnalysisFields == {"summary", "opinion", "image_url"}

\* C16: once a cycle has ended, by returning or by termination of its
\* process, either none of its selected articles is marked sent and the log
\* has no new row, or all are marked and the log has the row of the chosen
\* topic (no row when no topic was chosen).
C16_CommitAllOrNothing ==
    \A p \in Procs :
        LET c == cyc[p]
        IN Ended(c) =>
              \/ Marked(c) = {} /\ NewLog(c) = <<>>
              \/ /\ Marked(c) = Range(c.articles)
                 /\ IF IsNull(c.chosen_topic) THEN NewLog(c) = <<>>
                    ELSE Len(NewLog(c)) = 1 /\ NewLog(c)[1].topic = Val(c.chosen_topic)

\* C17: when the process of a cycle is terminated before the commit step,
\* the log has no new row, every article that was unsent when the cycle
\* began is still unsent, and the pool query for the same topic returns
\* every article of the interrupted run's pool, its selection included.
C17_IdempotentRestart ==
    \A p \in Procs :
        LET c == cyc[p]
        IN (c.pc = "crashed" /\ c.at \in {"chosen", "selected", "summarized"}) =>
              /\ NewLog(c) = <<>>
              /\ \A a \in Unsent0(c) : a \in DOMAIN articles /\ IsNull(articles[a].sent_at)
              /\ Range(c.articles) \subseteq c.pool
              /\ \A order \in RowOrders(DOMAIN articles) :
                    c.pool \subseteq Range(get_unsent_articles(articles, order, c.chosen_topic,
                                                               RequireSummary(c.chosen_topic)))

\* C17 witness: a real run on a topic was terminated after just-in-time
\* summarization had written the summary of a selected article.
C17_Witness ==
    \E p \in Procs :
        /\ cyc[p].pc = "crashed" /\ cyc[p].at = "summarized"
        /\ RealRun(cyc[p]) /\ ~IsNull(cyc[p].chosen_topic)
        /\ \E a \in Range(cyc[p].articles) :
              IsNull(cyc[p].store0[a].summary) /\ ~IsNull(articles[a].summary)

\* C18 as stated: a cycle that ends without the commit step leaves the
\* articles table and the digest log as they were when it began.
C18_CommitOnlyMutation ==
    \A p \in Procs :
        NoCommit(cyc[p]) =>
            articles = cyc[p].store0 /\ Len(digests) = cyc[p].digests0

\* C18 amended: a cycle that ends without the commit step leaves the digest
\* log and the rows of the table as they were, except for the summary,
\* opinion and image_url of selected articles that had no summary, which a
\* run on a topic that is not a dry run may have set.
C18_OnlyAnalysisWithoutCommit ==
    \A p \in Procs :
        LET c == cyc[p]
        IN NoCommit(c) =>
              /\ Len(digests) = c.digests0
              /\ DOMAIN articles = DOMAIN c.store0
              /\ \A a \in DOMAIN articles :
                    /\ \A f \in DOMAIN articles[a] \ AnalysisFields :
                          articles[a][f] = c.store0[a][f]
                    /\ articles[a] # c.store0[a] =>
                          /\ a \in Range(c.articles)
                          /\ IsNull(c.store0[a].summary) /\ ~IsNull(articles[a].summary)
                          /\ ~c.dry_run /\ ~IsNull(c.chosen_topic)

\* C18 witness: a cycle with a test recipient ended, having set the summary
\* of a selected article.
C18_Witness ==
    \E p \in Procs :
        /\ NoCommit(cyc[p]) /\ cyc[p].test_email
        /\ \E a \in Range(cyc[p].articles) :
              IsNull(cyc[p].store0[a].summary) /\ ~IsNull(articles[a].summary)

\* C19: a cycle that ends with no send succeeded (empty selection, no
\* recipient, or every send failed) has changed no sent_at and appended no
\* log row; an empty pool gives an empty selection, and a cycle with an
\* empty selection goes from the selection to its end with no send counted.
C19_NoSendNoCommit ==
    \A p \in Procs :
        LET c == cyc[p]
        IN /\ (c.pc = "done" /\ c.sent = 0) =>
                 /\ NewLog(c) = <<>>
                 /\ \A a \in DOMAIN c.store0 :
                       a \in DOMAIN articles /\ articles[a].sent_at = c.store0[a].sent_at
           /\ (c.pc \in {"selected", "summarized", "marking", "logging", "done"}
                 /\ c.pool = {}) => c.articles = <<>>
           /\ (c.pc \in {"selected", "summarized", "marking", "logging", "done"}
                 /\ c.articles = <<>>) =>
                 c.pc \in {"selected", "done"} /\ c.sent = 0 /\ c.failed = 0

\* C19 witness: a real run with a non-empty selection ended with every send
\* failed.
C19_Witness ==
    \E p \in Procs :
        /\ cyc[p].pc = "done" /\ RealRun(cyc[p])
        /\ cyc[p].articles # <<>>
        /\ cyc[p].sent = 0 /\ cyc[p].failed >= 1


----------------------------------------------------------------------------
(* Properties of add_article, under SpecIngest *)

Added == ret.fn = "add_article"

\* C20: no two rows of the store have the same url; a call of add_article
\* with a url some row has returns None and leaves the table as it was; a
\* call with a url no row has, whatever else it shares with the urls
\* stored, adds one row with that url and changes no other row.
C20_UrlUnique ==
    /\ \A a, b \in DOMAIN articles : articles[a].url = articles[b].url => a = b
    /\ Added =>
          IF \E a \in DOMAIN ret.before : ret.before[a].url = ret.url
          THEN IsNull(ret.value) /\ articles = ret.before
          ELSE /\ ~IsNull(ret.value)
               /\ DOMAIN articles = DOMAIN ret.before \cup {Val(ret.value)}
               /\ Val(ret.value) \notin DOMAIN ret.before
               /\ articles[Val(ret.value)].url = ret.url
               /\ \A a \in DOMAIN ret.before : articles[a] = ret.before[a]

\* C20 witness: a call with a url already stored returned None while the
\* store holds two urls that differ only in the case of one letter.
C20_Witness ==
    /\ Added /\ IsNull(ret.value)
    /\ \E a, b \in DOMAIN articles :
          a # b /\ Lower(articles[a].url) = Lower(articles[b].url)


----------------------------------------------------------------------------
(* Properties of fetch_feed and fetch_all_feeds, under SpecFetch *)

Fetched == ret.fn = "fetch_all"
\* the attempt did not end with entries
Failed(attempt) == attempt.kind \in {"raises", "bozo", "empty"}

----------------------------------------------------------------------------
(* Properties of just-in-time summarization, under Spec *)

\* C22: the step of just-in-time summarization on a non-empty selection,
\* whichever summarizations fail, leaves the selection as it is and takes
\* the cycle on to the send: each selected article that lacked a summary now
\* has one or is still selected without one; and the commit of the cycle
\* marks every selected article sent, those still without summary included.
C22_JitFailureNotFatal ==
    [][\A p \in Procs :
          LET c == cyc[p]
              d == cyc'[p]
          IN /\ (c.pc = "selected" /\ d.pc \notin {"selected", "crashed"}
                   /\ c.articles # <<>>) =>
                   /\ d.pc = "summarized"
                   /\ d.articles = c.articles
                   /\ d.need_summary \subseteq c.need_summary
                   /\ \A a \in c.need_summary :
                         /\ a \in Range(d.articles)
                         /\ IF a \in d.need_summary THEN articles'[a] = articles[a]
                            ELSE ~IsNull(articles'[a].summary)
             /\ (c.pc \in {"marking", "logging"} /\ d.pc = "done") =>
                   \A a \in Range(c.articles) : ~IsNull(articles'[a].sent_at)]_vars

\* C22 witness: a real run on a topic has committed a selection of two
\* articles that both lacked a summary; just-in-time summarization failed
\* for the one and wrote the summary of the other, and both are marked sent.
C22_Witness ==
    \E p \in Procs :
        LET c == cyc[p]
        IN /\ c.pc = "done" /\ RealRun(c) /\ c.sent >= 1
           /\ ~IsNull(c.chosen_topic)
           /\ \E a, b \in Range(c.articles) :
                 /\ IsNull(c.store0[a].summary) /\ IsNull(c.store0[b].summary)
                 /\ a \in c.need_summary /\ IsNull(articles[a].summary)
                 /\ ~IsNull(articles[b].summary)
                 /\ ~IsNull(articles[a].sent_at) /\ ~IsNull(articles[b].sent_at)


----------------------------------------------------------------------------
(* Properties of the article fields, under Spec *)

\* C23: no step of a topic-assignment run, a batch-summarization run or a
\* digest cycle removes an article, changes a topic that is not null, or
\* changes the summary or the opinion of an article that has a summary or an
\* opinion.
C23_WriteOnce ==
    [][\A a \in DOMAIN articles :
          /\ a \in DOMAIN articles'
          /\ ~IsNull(articles[a].topic) => articles'[a].topic = articles[a].topic
          /\ (~IsNull(articles[a].summary) \/ ~IsNull(articles[a].opinion)) =>
                /\ articles'[a].summary = articles[a].summary
                /\ articles'[a].opinion = articles[a].opinion]_vars

\* C23 witness: just-in-time summarization has run on a selection of an
\* article that had a summary when the cycle began and one that had none and
\* has one now, while the store holds an article without topic.
C23_Witness ==
    \E p \in Procs :
        /\ cyc[p].pc = "summarized" /\ ~IsNull(cyc[p].chosen_topic)
        /\ \E a, b \in Range(cyc[p].articles) :
              /\ ~IsNull(cyc[p].store0[a].summary)
              /\ articles[a].summary = cyc[p].store0[a].summary
              /\ IsNull(cyc[p].store0[b].summary) /\ ~IsNull(articles[b].summary)


----------------------------------------------------------------------------
(* Properties of assign_topic_for_article, under SpecClassify *)

Classified == ret.fn = "assign_topic"
\* the text of the response has the label t in it, in whatever case
Names(text, t) == Contains(Lower(t), Lower(text))

\* C24: the topic of every article is null or one of the five labels; the
\* label returned for a response is one of the five, and it is "Industry"
\* when the classifier raised or the text of its response has none of the
\* five labels in it.
C24_TopicInClosedSet ==
    /\ Cardinality(TopicSet) = 5
    /\ \A a \in DOMAIN articles :
          IsNull(articles[a].topic) \/ Val(articles[a].topic) \in TopicSet
    /\ Classified =>
          /\ ret.value \in TopicSet
          /\ articles[ret.id].topic = Some(ret.value)
          /\ ret.response.raises => ret.value = "Industry"
          /\ (\A t \in TopicSet : ~Names(ret.response.text, t)) => ret.value = "Industry"

\* C24 witness: the classifier answered with a sentence that has none of
\* the labels in it, and the article has the topic "Industry".
C24_Witness ==
    /\ Classified /\ ~ret.response.raises
    /\ ret.response.text = "Topic: Other. "
    /\ articles[ret.id].topic = Some("Industry")


----------------------------------------------------------------------------
(* Properties of select on rows without source, under SpecSource *)

SelectedSource == ret.fn = "select_source"
\* the bucket key "Unknown": a name, so one of the positive integers
Unknown == NamedSources + 1
\* the rows of the pool whose source is null
Sourceless == {a \in Range(ret.pool) : articles[a].source = None}

\* C25: select returns a list for every pool, also one that has rows
\* without source next to rows with a source; the rows without source are
\* in the one bucket with key "Unknown", of which at most max_per_source are
\* returned.
C25_MissingSourceUnknown ==
    SelectedSource =>
        /\ ~ret.raised
        /\ Sourceless # {} =>
              /\ None \notin Range(ret.keys)
              /\ Unknown \in Range(ret.keys)
        /\ Cardinality(Sourceless \cap Range(ret.value))
              = Min(Cardinality(Sourceless), ret.max_per_source)


----------------------------------------------------------------------------
(* Properties of digest cycles that interleave, under SpecConc *)

\* the cycle ended after a real run with a send succeeded: it has committed
Committed(c) == c.pc = "done" /\ RealRun(c) /\ c.sent >= 1 /\ c.articles # <<>>
\* the articles in the selections of both cycles
Shared(c, d) == Range(c.articles) \cap Range(d.articles)

\* C26: nothing keeps a cycle from building its selection while another is
\* under way, and the selection of a cycle has an article of another cycle's
\* selection only when that cycle has not yet marked it sent: the selection
\* that a cycle builds after another cycle has committed shares no article
\* with it.
C26_DoubleDeliveryOnlyWhenInterleaved ==
    [][\A p, q \in Procs :
          (p # q /\ cyc[q].pc = "chosen" /\ cyc'[q].pc = "selected") =>
             /\ \A a \in Shared(cyc[p], cyc'[q]) : IsNull(articles[a].sent_at)
             /\ Committed(cyc[p]) => Shared(cyc[p], cyc'[q]) = {}]_vars

\* C26 witness: two cycles have both committed, each after a send that
\* succeeded, with the same article in their selections, and the log has a
\* row of each for the same topic.
C26_Witness ==
    /\ \A p \in Procs : Committed(cyc[p])
    /\ \E p, q \in Procs : p # q /\ Shared(cyc[p], cyc[q]) # {}
    /\ Len(digests) = 2 /\ digests[1].topic = digests[2].topic
    /\ \A a \in Shared(cyc[1], cyc[2]) : ~IsNull(articles[a].sent_at)


----------------------------------------------------------------------------
(* Properties of ingest, cleanup and digest cycles, under SpecRetention *)

\* the urls of the rows of the store that a digest has sent
SentUrls == {articles[a].url : a \in {x \in DOMAIN articles : ~IsNull(articles[x].sent_at)}}

\* C27: no url is in more than one committed digest: no two rows that were
\* marked sent, in the store or deleted from it by a cleanup run, have the
\* same url.
C27_UrlInOneDigest ==
    /\ SentUrls \cap DeletedSentUrls = {}
    /\ \A a, b \in DOMAIN articles :
          (~IsNull(articles[a].sent_at) /\ ~IsNull(articles[b].sent_at)
             /\ articles[a].url = articles[b].url) => a = b


----------------------------------------------------------------------------
(* Properties of repeated digest cycles, under SpecProgress *)

\* a cycle has ended on an empty selection
Skipped == \E p \in Procs : cyc[p].pc = "done" /\ cyc[p].articles = <<>>
\* no cycle has a test recipient
AllReal == \A p \in Procs : ~cyc[p].test_email
\* the unsent articles that have a topic or a summary
Selectable ==
    {a \in Unsent : ~IsNull(articles[a].topic) \/ ~IsNull(articles[a].summary)}

\* C28 as stated: cycles that are no dry runs, each with a send that
\* succeeds and a cap of at least 1, on a store that gets no new article,
\* reach a cycle with an empty selection.
C28_NonDryRunCyclesReachSkip == <>Skipped

\* C28 amended: a cycle that has committed has marked at least one article
\* that was unsent when it began; a cycle with an empty selection leaves no
\* unsent article that has a topic or a summary; and when no cycle has a
\* test recipient, the cycles reach one with an empty selection.
C28_RealCyclesReachSkip ==
    /\ [](\A p \in Procs :
            LET c == cyc[p]
            IN /\ (c.pc = "done" /\ c.articles # <<>> /\ RealRun(c)) =>
                     /\ c.sent >= 1
                     /\ Marked(c) \cap Unsent0(c) # {}
               /\ (c.pc = "done" /\ c.articles = <<>>) => Selectable = {})
    /\ ([]AllReal => <>Skipped)

\* C28 witness: after two cycles that committed, one article each, a real
\* run has ended on an empty selection, with every article sent.
C28_Witness ==
    /\ \E p \in Procs : cyc[p].pc = "done" /\ cyc[p].articles = <<>> /\ RealRun(cyc[p])
    /\ Len(digests) = 2
    /\ Cardinality(DOMAIN articles) = 2
    /\ Unsent = {}

====
